---- MODULE Spec2Model ----
(***************************************************************************)
(* Benchmark.run() of src/bench/lib/benchmark.js as a state machine.       *)
(*                                                                         *)
(* One run: run() calls setup, chains next() on its promise; next() either *)
(* calls teardown (both thresholds reached) or reads the timer, calls      *)
(* bench and chains the callback that records the sample and calls next()  *)
(* again.  Every step of the promise chain that runs user-visible code is  *)
(* one action.                                                             *)
(*                                                                         *)
(* Timer readings and durations are integers counting half-milliseconds    *)
(* (1.5 ms is 3); sums of such values are exact in the doubles the code    *)
(* computes with.                                                          *)
(***************************************************************************)
EXTENDS Integers, Sequences, FiniteSets, TLC

VARIABLES
    result,       \* the promise run() returned: state, value, reason
    elapsed,      \* run()'s local `elapsed`
    samples,      \* run()'s local `samples`
    now,          \* the last reading performance.now() gave this run
    calls,        \* the hooks invoked so far, in invocation order
    outstanding,  \* hook invocations whose continuation has not run yet
    failed,       \* the hook failures that happened: hook, sample index, reason
    script,       \* the durations the timer shows for successive bench calls
    configs,      \* what the configuration query returned, and for which class
    opts,         \* the configuration the constructor was given
    inst,         \* the instance: its label and options
    other,        \* a second instance and its run, while the first one acts
    focus         \* which of the two runs the variables above hold: 1 or 2

vars == <<result, elapsed, samples, now, calls, outstanding, failed, script,
          configs, opts, inst, other, focus>>

----------------------------------------------------------------------------
(* Program constants (line 61) *)

TimeBudgetMs == 300
MinSamples == 210

(* Bounds of the model *)

MaxScriptLen == 2    \* bench durations repeat with a period of at most this
MaxSamples == 302    \* no bench is started once this many samples exist
LoopGap == 1         \* timer ticks between one reading and the next start
SwitchWindow == 1    \* two runs: the other run gets its turn only while the
                     \* acting one has at most this many or at least 210 samples

\* milliseconds to timer ticks (half-milliseconds)
Ms(t) == 2 * t

\* -0.5 ms (a timer that went backwards), 0, 1 ms, 1.5 ms, 50 ms
Durations == {-1, 0, 2, 3, 100}

Hooks == {"setup", "bench", "teardown"}

\* how an invoked hook comes back: it returns a plain value, it throws, or it
\* returns a promise that settles later
Kinds == {"returns", "throws", "promise"}

\* The value a failing hook throws or rejects with is the hook's own choice;
\* it is modelled by the hook and sample index that value names, which need
\* not be those of the failure.
Reasons == {[hook |-> "bench", index |-> 1], [hook |-> "teardown", index |-> 0]}
NoReason == [hook |-> "none", index |-> 0]

Scripts == UNION {[1..n -> Durations] : n \in 1..MaxScriptLen}

\* options are records of any shape; the empty record is {}
Labels == {"", "small", "large"}
Options == UNION {[keys -> {10, 1000}] : keys \in SUBSET {"n"}}
EmptyOptions == [k \in {} |-> 0]
Configurations == [label : Labels, options : Options]

\* what a subclass overriding getArguments may return: up to two
\* configurations
Overrides == UNION {[1..n -> Configurations] : n \in 1..2}

\* the sum of a sequence of numbers, by halves
RECURSIVE Sum(_)
Sum(s) ==
    IF Len(s) = 0 THEN 0
    ELSE IF Len(s) = 1 THEN s[1]
    ELSE LET h == Len(s) \div 2
         IN  Sum(SubSeq(s, 1, h)) + Sum(SubSeq(s, h + 1, Len(s)))

Count(h) == Cardinality({i \in 1..Len(calls) : calls[i] = h})

\* the duration the timer shows for the k-th bench invocation
Duration(k) == script[((k - 1) % Len(script)) + 1]

----------------------------------------------------------------------------
(* Pieces of the code *)

\* line 61 with both comparisons turned around
StopCondFlipped(el, sm) == el <= Ms(TimeBudgetMs) /\ Len(sm) <= MinSamples

\* line 61 with || for &&
StopCondEither(el, sm) == el >= Ms(TimeBudgetMs) \/ Len(sm) > MinSamples

\* line 61 with >= 210 for > 210
StopCondAtLeast(el, sm) == el >= Ms(TimeBudgetMs) /\ Len(sm) >= MinSamples

\* line 61 with a ceiling on the number of samples added
StopCondCeiling(el, sm) ==
    (el >= Ms(TimeBudgetMs) /\ Len(sm) > MinSamples) \/ Len(sm) >= MinSamples + 40

\* line 61: the condition under which next() stops sampling
StopCond(el, sm) == el >= Ms(TimeBudgetMs) /\ Len(sm) > MinSamples

\* line 67 with the difference clamped at zero
SampleClamped(end, start) == IF end >= start THEN end - start ELSE 0

\* line 67: the sample is the end reading minus the start reading
Sample(end, start) == end - start

\* line 68 with = for +=
AccumulateLast(el, s) == s

\* line 68: elapsed += sample
Accumulate(el, s) == el + s

\* line 69 with unshift for push
Unshift(sm, s) == <<s>> \o sm

\* line 69: samples.push(sample)
Push(sm, s) == Append(sm, s)

\* .then(callback, callback): the callback runs however the promise settles
Settled(p) == p.state \in {"fulfilled", "rejected"}

\* the callback run without waiting for the promise
NotAwaited(p) == TRUE

\* .then(callback): the callback runs once the promise is fulfilled
Fulfilled(p) == p.state = "fulfilled"

\* line 21 returning no configuration
getArgumentsNone == <<>>

\* lines 20-22: static getArguments()
getArguments == <<[label |-> "", options |-> EmptyOptions]>>

\* lines 24-27 with the options left out
constructorNoOptions(o) == [label |-> o.label, options |-> EmptyOptions]

\* lines 24-27: constructor(opts)
constructor(o) == [label |-> o.label, options |-> o.options]

\* elapsed and samples declared outside run(): one pair for all runs
LocalsShared(own, current) == current

\* lines 56-57: elapsed and samples are locals of each call of run(); the
\* callbacks of a run see its own pair, whatever another run holds
Locals(own, current) == own

\* what a hook invoked with the given kind throws: one of Reasons, or nothing
Thrown(kind) == IF kind = "throws" THEN Reasons ELSE {NoReason}

\* Promise.resolve(hook()): the link of the chain made from a hook invocation
\* of the given kind.  A throw inside a then-callback rejects the promise
\* that then() returned, with the value thrown.
Link(h, kind, reason, start) ==
    [id |-> Len(calls) + 1,
     hook |-> h,
     state |-> CASE kind = "returns" -> "fulfilled"
                 [] kind = "throws" -> "rejected"
                 [] kind = "promise" -> "pending",
     reason |-> reason,
     start |-> start]

\* a failure of hook h, noted with the number of bench invocations made
Failure(h, n, reason) == [hook |-> h, index |-> n, reason |-> reason]

\* the failures after a hook invoked as the n-th bench (or with n benches
\* made) came back with the given reason
Noted(h, n, reason) ==
    IF reason = NoReason THEN failed ELSE failed \cup {Failure(h, n, reason)}

\* a rejection swallowed: the samples so far delivered instead
RejectionSwallowed(p) == [state |-> "fulfilled", value |-> samples, reason |-> NoReason]

\* the promise of run() takes the rejection of link p, unchanged
Rejection(p) == [state |-> "rejected", value |-> <<>>, reason |-> p.reason]

\* a catch handler that invokes teardown when bench failed
CallsWithCleanup(p) == IF p.hook = "bench" THEN Append(calls, "teardown") ELSE calls

\* the hooks invoked once link p is rejected: the chain has no rejection
\* handler, so the failure path invokes no hook
CallsAfterRejection(p) == calls

\* line 62: .then(() => samples)
Delivery(sm) == [state |-> "fulfilled", value |-> sm, reason |-> NoReason]

\* lines 59-72, next() with the locals at (el, sm) and the timer at t: invoke
\* teardown, or read the timer and invoke bench.  rest are the links other
\* than the one whose callback is running.
next(el, sm, t, rest) ==
    \E kind \in Kinds :
        \E reason \in Thrown(kind) :
            IF StopCond(el, sm)
            THEN /\ calls' = Append(calls, "teardown")
                 /\ now' = t
                 /\ outstanding' = rest \cup {Link("teardown", kind, reason, t)}
                 /\ failed' = Noted("teardown", Count("bench"), reason)
            ELSE /\ Len(sm) < MaxSamples
                 /\ calls' = Append(calls, "bench")
                 /\ now' = t + LoopGap
                 /\ outstanding' = rest \cup {Link("bench", kind, reason, t + LoopGap)}
                 /\ failed' = Noted("bench", Count("bench") + 1, reason)

----------------------------------------------------------------------------
(* The state machine *)

NotCalled == [state |-> "none", value |-> <<>>, reason |-> NoReason]
Pending == [state |-> "pending", value |-> <<>>, reason |-> NoReason]
Threw(reason) == [state |-> "thrown", value |-> <<>>, reason |-> reason]

NotQueried == [class |-> "none", list |-> <<>>]
NoConfiguration == [label |-> "none", options |-> EmptyOptions]
NoOther == [result |-> NotCalled]

\* a run() not yet called
Fresh ==
    /\ result = NotCalled
    /\ elapsed = 0
    /\ samples = <<>>
    /\ now = 0
    /\ calls = <<>>
    /\ outstanding = {}
    /\ failed = {}

\* one instance of Benchmark itself, constructed from its only configuration
Init ==
    /\ Fresh
    /\ script \in Scripts
    /\ configs = [class |-> "Benchmark", list |-> getArguments]
    /\ opts = configs.list[1]
    /\ inst = constructor(opts)
    /\ other = NoOther
    /\ focus = 1

\* lines 55-58 and 74: run() up to its return.  A setup that throws makes
\* run() itself throw: this.setup() is evaluated before Promise.resolve.
Run ==
    /\ result.state = "none"
    /\ \E kind \in Kinds :
        \E reason \in Thrown(kind) :
            /\ elapsed' = 0
            /\ samples' = <<>>
            /\ calls' = Append(calls, "setup")
            /\ failed' = Noted("setup", 0, reason)
            /\ IF kind = "throws"
               THEN /\ result' = Threw(reason)
                    /\ outstanding' = {}
               ELSE /\ result' = Pending
                    /\ outstanding' = {Link("setup", kind, reason, now)}
    /\ UNCHANGED <<now, script, configs, opts, inst, other, focus>>

\* a promise returned by a hook settles: fulfilled, or rejected with a reason
Settle ==
    \E p \in outstanding :
        \E reason \in Reasons \cup {NoReason} :
            /\ p.state = "pending"
            /\ outstanding' = (outstanding \ {p}) \cup
                  {[p EXCEPT !.state = IF reason = NoReason THEN "fulfilled" ELSE "rejected",
                             !.reason = reason]}
            /\ failed' = Noted(p.hook, Count("bench"), reason)
            /\ UNCHANGED <<result, elapsed, samples, now, calls, script>>
            /\ UNCHANGED <<configs, opts, inst, other, focus>>

\* line 74: .then(next), the callback of setup's promise
SetupThen ==
    \E p \in outstanding :
        /\ p.hook = "setup"
        /\ Fulfilled(p)
        /\ next(elapsed, samples, now, outstanding \ {p})
        /\ UNCHANGED <<result, elapsed, samples, script, configs, opts, inst, other, focus>>

\* lines 66-71: the callback of bench's promise.  The timer shows the start
\* reading plus the duration of this bench invocation.
BenchThen ==
    \E p \in outstanding :
        /\ p.hook = "bench"
        /\ Fulfilled(p)
        /\ LET end == p.start + Duration(Cardinality({i \in 1..p.id : calls[i] = "bench"}))
               sample == Sample(end, p.start)
           IN  /\ elapsed' = Accumulate(elapsed, sample)
               /\ samples' = Push(samples, sample)
               /\ next(elapsed', samples', end, outstanding \ {p})
        /\ UNCHANGED <<result, script, configs, opts, inst, other, focus>>

\* line 62: the callback of teardown's promise delivers the samples
TeardownThen ==
    \E p \in outstanding :
        /\ p.hook = "teardown"
        /\ Fulfilled(p)
        /\ result' = Delivery(samples)
        /\ outstanding' = outstanding \ {p}
        /\ UNCHANGED <<elapsed, samples, now, calls, failed, script>>
        /\ UNCHANGED <<configs, opts, inst, other, focus>>

\* a rejected link has no rejection handler anywhere in the chain (lines 62,
\* 66, 74 pass then() one callback): the promise of run() is rejected with it
Reject ==
    \E p \in outstanding :
        /\ p.state = "rejected"
        /\ result.state = "pending"
        /\ result' = Rejection(p)
        /\ calls' = CallsAfterRejection(p)
        /\ outstanding' = outstanding \ {p}
        /\ UNCHANGED <<elapsed, samples, now, failed, script>>
        /\ UNCHANGED <<configs, opts, inst, other, focus>>

Next == Run \/ Settle \/ SetupThen \/ BenchThen \/ TeardownThen \/ Reject

Spec == Init /\ [][Next]_vars

----------------------------------------------------------------------------
(* The configuration query and the constructor, as a harness uses them *)

\* the harness asks a benchmark class for its configurations: Benchmark's own
\* getArguments, or the one of a subclass that overrides it
GetArguments ==
    /\ \/ configs' = [class |-> "Benchmark", list |-> getArguments]
       \/ \E l \in Overrides : configs' = [class |-> "subclass", list |-> l]
    /\ UNCHANGED <<result, elapsed, samples, now, calls, outstanding, failed, script>>
    /\ UNCHANGED <<opts, inst, other, focus>>

\* the harness constructs an instance from one of the configurations
New ==
    /\ \E i \in 1..Len(configs.list) :
          /\ opts' = configs.list[i]
          /\ inst' = constructor(opts')
    /\ UNCHANGED <<result, elapsed, samples, now, calls, outstanding, failed, script>>
    /\ UNCHANGED <<configs, other, focus>>

InitNew ==
    /\ Fresh
    /\ script = <<0>>
    /\ configs = NotQueried
    /\ opts = NoConfiguration
    /\ inst = NoConfiguration
    /\ other = NoOther
    /\ focus = 1

NextNew == GetArguments \/ New

SpecNew == InitNew /\ [][NextNew]_vars

----------------------------------------------------------------------------
(* Two instances, one per configuration, their runs interleaved *)

ScenarioC ==
    <<[label |-> "small", options |-> [n |-> 10]],
      [label |-> "large", options |-> [n |-> 1000]]>>

\* the run the variables hold, as a record
Held ==
    [result |-> result, elapsed |-> elapsed, samples |-> samples, now |-> now,
     calls |-> calls, outstanding |-> outstanding, failed |-> failed,
     script |-> script, opts |-> opts, inst |-> inst]

Switchable == Len(samples) <= SwitchWindow \/ Len(samples) >= MinSamples

\* the event loop turns from the chain of one run to the chain of the other
Swap ==
    /\ Switchable
    /\ focus' = 3 - focus
    /\ other' = Held
    /\ LET seen == Locals([elapsed |-> other.elapsed, samples |-> other.samples],
                          [elapsed |-> elapsed, samples |-> samples])
       IN  /\ elapsed' = seen.elapsed
           /\ samples' = seen.samples
    /\ result' = other.result
    /\ now' = other.now
    /\ calls' = other.calls
    /\ outstanding' = other.outstanding
    /\ failed' = other.failed
    /\ script' = other.script
    /\ opts' = other.opts
    /\ inst' = other.inst
    /\ UNCHANGED configs

\* "small" takes 1.5 ms per bench, "large" 50 ms
InitTwo ==
    /\ Fresh
    /\ script = <<3>>
    /\ configs = [class |-> "subclass", list |-> ScenarioC]
    /\ opts = configs.list[1]
    /\ inst = constructor(opts)
    /\ other = [result |-> NotCalled, elapsed |-> 0, samples |-> <<>>, now |-> 0,
                calls |-> <<>>, outstanding |-> {}, failed |-> {},
                script |-> <<100>>, opts |-> configs.list[2],
                inst |-> constructor(configs.list[2])]
    /\ focus = 1

NextTwo == Run \/ Settle \/ SetupThen \/ BenchThen \/ TeardownThen \/ Reject \/ Swap

SpecTwo == InitTwo /\ [][NextTwo]_vars

\* Runs whose bench always takes some positive time, under the scheduling
\* the promise machinery gives: run() runs to its return, a callback of a
\* settled promise is run, a rejection is passed on; and every promise a hook
\* returned settles.
PositiveScript == \A i \in 1..Len(script) : script[i] > 0
InitLive == Init /\ PositiveScript
Fairness ==
    /\ WF_vars(Run)
    /\ WF_vars(Settle)
    /\ WF_vars(SetupThen)
    /\ WF_vars(BenchThen)
    /\ WF_vars(TeardownThen)
    /\ WF_vars(Reject)
SpecLive == InitLive /\ [][Next]_vars /\ Fairness

----------------------------------------------------------------------------
(* Vocabulary of the properties *)

Max(a, b) == IF a >= b THEN a ELSE b
CeilDiv(a, b) == (a + b - 1) \div b
Prefix(s, k) == SubSeq(s, 1, k)
Ended == result.state \in {"fulfilled", "rejected", "thrown"}
BenchFailures == {f \in failed : f.hook = "bench"}

\* calls is a prefix of: setup, bench, ..., bench, teardown
OrderedCalls ==
    \A i \in 1..Len(calls) :
        /\ (i = 1) <=> (calls[i] = "setup")
        /\ calls[i] = "teardown" => i = Len(calls)

\* calls is exactly: setup once, bench N >= 1 times, teardown once
CompleteCalls ==
    /\ Len(calls) >= 3
    /\ calls[1] = "setup"
    /\ calls[Len(calls)] = "teardown"
    /\ \A i \in 2..(Len(calls) - 1) : calls[i] = "bench"

\* at most one hook invocation awaits its continuation, and it is the last
\* hook invoked
OneAtATime ==
    /\ Cardinality(outstanding) <= 1
    /\ \A p \in outstanding : p.id = Len(calls) /\ p.hook = calls[p.id]

----------------------------------------------------------------------------
(* C1 *)

\* C1 as stated: a run whose promise has settled, with a sample sequence or
\* with a failure, has invoked exactly setup once, bench N >= 1 times, teardown
\* once, in this order and one at a time.
C1_AnyRunComplete ==
    result.state \in {"fulfilled", "rejected"} =>
        (CompleteCalls /\ OrderedCalls /\ OneAtATime)

\* C1 as amended: at every moment of every run the hooks invoked so far are a
\* prefix of setup, bench ..., teardown, invoked one at a time; a run that
\* delivers its samples has invoked exactly setup once, bench N >= 1 times and
\* teardown once; a run in which a hook failed has invoked nothing after the
\* failing hook.
C1_HookOrder ==
    /\ OrderedCalls
    /\ OneAtATime
    /\ result.state = "fulfilled" => CompleteCalls
    /\ \A f \in failed : calls[Len(calls)] = f.hook

C1_Witness ==
    /\ result.state = "fulfilled"
    /\ Len(calls) = MinSamples + 3
    /\ script = <<3>>

----------------------------------------------------------------------------
(* C2 *)

\* C2: teardown has been invoked only if the sum is >= 300 ms and more than
\* 210 samples exist; a bench invocation is under way only if not both hold;
\* and no proper prefix of a delivered sample sequence already met both.
C2_DualStop ==
    /\ Count("teardown") > 0 => (elapsed >= Ms(TimeBudgetMs) /\ Len(samples) > MinSamples)
    /\ \A p \in outstanding :
          p.hook = "bench" => ~(elapsed >= Ms(TimeBudgetMs) /\ Len(samples) > MinSamples)
    /\ result.state = "fulfilled" =>
          \A k \in 0..(Len(result.value) - 1) :
              ~(Sum(Prefix(result.value, k)) >= Ms(TimeBudgetMs) /\ k > MinSamples)

\* the time budget is the threshold crossed last: 300 samples of 1 ms
C2_Witness ==
    /\ result.state = "fulfilled"
    /\ script = <<2>>
    /\ Len(samples) = 300
    /\ elapsed = Ms(TimeBudgetMs)

----------------------------------------------------------------------------
(* C3 *)

----------------------------------------------------------------------------
(* C4 *)

\* C4: once the m-th bench invocation has failed, by a throw or by a
\* rejection, it stays the last hook invoked: m bench invocations, m - 1
\* samples; the promise of run() never delivers samples: it is rejected, or
\* still pending with the rejection as the only step left.
C4_BenchFailureAborts ==
    \A f \in BenchFailures :
        /\ Count("bench") = f.index
        /\ calls[Len(calls)] = "bench"
        /\ Len(samples) = f.index - 1
        /\ result.state \in {"pending", "rejected"}
        /\ result.state = "pending" =>
              \E p \in outstanding : outstanding = {p} /\ p.state = "rejected"
        /\ result.state = "rejected" => (result.value = <<>> /\ outstanding = {})

C4_Witness ==
    /\ result.state = "rejected"
    /\ \E f \in BenchFailures : f.index = 3
    /\ Len(samples) = 2

----------------------------------------------------------------------------
(* C5 *)

\* C5 as stated: a run rejected after a bench failure has invoked teardown
\* exactly once.
C5_TeardownAfterFailure ==
    (result.state = "rejected" /\ BenchFailures # {}) => Count("teardown") = 1

\* C5 as amended: if the m-th bench invocation signals failure, teardown is
\* not invoked, neither before nor after the failure is delivered.
C5_NoTeardownAfterFailure ==
    BenchFailures # {} => Count("teardown") = 0

C5_Witness ==
    /\ result.state = "rejected"
    /\ \E f \in BenchFailures : f.index = MinSamples + 1
    /\ Count("teardown") = 0

----------------------------------------------------------------------------
(* C6 *)

\* C6: every hook failure surfaces through the promise run() returned, which
\* is rejected or about to be; run() never throws.
C6_FailureThroughPromise ==
    failed # {} =>
        \/ result.state = "rejected"
        \/ /\ result.state = "pending"
           /\ \E p \in outstanding : p.state = "rejected"

----------------------------------------------------------------------------
(* C7 *)

\* the failure indication names the hook that failed and the sample index
Identifies(reason, f) == reason.hook = f.hook /\ reason.index = f.index

\* C7 as stated: a rejected result identifies the hook that failed and the
\* sample index of the failure, and a result is either the complete sample
\* sequence or a failure carrying no samples.
C7_FailureIdentified ==
    /\ result.state = "rejected" =>
          (result.value = <<>> /\ \E f \in failed : Identifies(result.reason, f))
    /\ result.state = "fulfilled" =>
          (result.value = samples /\ StopCond(Sum(result.value), result.value))

\* C7 as amended: a rejected result carries the value the failing hook threw
\* or rejected with, unchanged, and nothing else: neither the hook nor the
\* sample index, and no samples; a fulfilled result is the complete sample
\* sequence, both thresholds met, teardown settled and no hook failed.
C7_FailureOpaque ==
    /\ result.state = "rejected" =>
          /\ result.value = <<>>
          /\ \E f \in failed : failed = {f} /\ result.reason = f.reason
          /\ result.reason \in Reasons
    /\ result.state = "fulfilled" =>
          /\ result.value = samples
          /\ StopCond(Sum(result.value), result.value)
          /\ Count("teardown") = 1
          /\ outstanding = {}
          /\ failed = {}

C7_Witness ==
    /\ result.state = "rejected"
    /\ Len(samples) = 4
    /\ \E f \in failed : f.hook = "bench" /\ f.index = 5 /\ ~Identifies(result.reason, f)

----------------------------------------------------------------------------
(* C8 *)

\* C8: the k-th element of the delivered sequence is the duration of the k-th
\* bench invocation, and there are as many elements as bench invocations.
C8_OrderPreserved ==
    result.state = "fulfilled" =>
        /\ Len(result.value) = Count("bench")
        /\ \A k \in 1..Len(result.value) : result.value[k] = Duration(k)

C8_Witness ==
    /\ result.state = "fulfilled"
    /\ script = <<2, 3>>
    /\ Len(result.value) = 240
    /\ result.value[1] = 2
    /\ result.value[240] = 3

----------------------------------------------------------------------------
(* C9 *)

Monotonic == \A i \in 1..Len(script) : script[i] >= 0

\* C9 as stated: no sample is negative and no negative value is added to the
\* sum, whatever the timer shows.
C9_NonNegative ==
    /\ \A k \in 1..Len(samples) : samples[k] >= 0
    /\ elapsed >= 0

\* C9 as amended: every sample is the end reading minus the start reading as
\* the timer gave them; it is >= 0 when the timer did not go backwards, and
\* when it did the negative difference is recorded and added to the sum.
C9_TimerTrusted ==
    /\ \A k \in 1..Len(samples) : (samples[k] < 0) <=> (Duration(k) < 0)
    /\ elapsed = Sum(samples)
    /\ Monotonic => (elapsed >= 0 /\ \A k \in 1..Len(samples) : samples[k] >= 0)

C9_Witness ==
    /\ script = <<-1>>
    /\ Len(samples) = 3
    /\ samples[3] = -1
    /\ elapsed = -3

----------------------------------------------------------------------------
(* C10 *)

\* C10: a hook is invoked only in a step in which every earlier invocation
\* has settled (fulfilled) and, as that step ends, every bench invoked before
\* has its sample in the sequence and in the sum; the start reading of the
\* new bench is taken in that same step; teardown is invoked with nothing
\* unsettled and the first bench only after setup's promise is fulfilled.
C10_Invoke ==
    calls' # calls =>
        /\ \A p \in outstanding : p.state = "fulfilled"
        /\ calls # <<>> => outstanding # {}
        /\ Len(calls') = Len(calls) + 1
        /\ Len(samples') = Count("bench")
        /\ elapsed' = Sum(samples')
        /\ \A q \in outstanding' :
              /\ q.id = Len(calls')
              /\ q.hook = "bench" => (q.start = now' /\ q.start >= now)

C10_Sequential == [][C10_Invoke]_vars

\* a bench that returned a promise is awaited, earlier samples recorded
C10_Witness ==
    /\ Len(samples) = 2
    /\ \E p \in outstanding : p.hook = "bench" /\ p.state = "pending" /\ p.id = 4

----------------------------------------------------------------------------
(* C11 *)

TeardownFailures == {f \in failed : f.hook = "teardown"}

\* C11: the samples are delivered only with teardown invoked, its promise
\* fulfilled and its callback run; while teardown is unsettled nothing is
\* delivered; once teardown has failed the result is never the samples: it
\* is rejected, without samples, or the rejection is the only step left.
C11_DeliveryAfterTeardown ==
    /\ result.state = "fulfilled" =>
          /\ Count("teardown") = 1
          /\ calls[Len(calls)] = "teardown"
          /\ outstanding = {}
          /\ TeardownFailures = {}
          /\ result.value = samples
    /\ \A p \in outstanding : p.hook = "teardown" => result = Pending
    /\ TeardownFailures # {} =>
          /\ result.state \in {"pending", "rejected"}
          /\ result.value = <<>>
          /\ result.state = "pending" =>
                \E p \in outstanding : outstanding = {p} /\ p.state = "rejected"

\* teardown failed after 211 samples were collected: none is delivered
C11_Witness ==
    /\ result.state = "rejected"
    /\ TeardownFailures # {}
    /\ Len(samples) = MinSamples + 1
    /\ result.value = <<>>

----------------------------------------------------------------------------
(* C14 *)

\* C14: teardown is not invoked and nothing is delivered while the sum is
\* below 300 ms, however many samples exist, nor while at most 210 samples
\* exist, however large the sum; and the loop does not stop by itself: the
\* callback of a fulfilled bench is always able to run (up to MaxSamples,
\* where the model stops).
C14_NoCeiling ==
    /\ elapsed < Ms(TimeBudgetMs) => (Count("teardown") = 0 /\ result.state # "fulfilled")
    /\ Len(samples) <= MinSamples => (Count("teardown") = 0 /\ result.state # "fulfilled")
    /\ \A p \in outstanding :
          (p.hook = "bench" /\ p.state = "fulfilled" /\ Len(samples) + 1 < MaxSamples)
              => ENABLED BenchThen

\* every sample is 0: 300 samples, far beyond 210, and still sampling
C14_Witness ==
    /\ script = <<0>>
    /\ Len(samples) = 300
    /\ elapsed = 0
    /\ Count("teardown") = 0
    /\ \E p \in outstanding : p.hook = "bench"

----------------------------------------------------------------------------
(* C16 *)

SetupFailures == {f \in failed : f.hook = "setup"}

\* C16: once setup has failed, by a throw or by a rejection, setup is the
\* only hook ever invoked, no sample exists, and the run ends in failure:
\* run() threw, or its promise is rejected, or the rejection is the only
\* step left.
C16_SetupFailure ==
    SetupFailures # {} =>
        /\ calls = <<"setup">>
        /\ samples = <<>>
        /\ elapsed = 0
        /\ result.state \in {"thrown", "rejected", "pending"}
        /\ result.value = <<>>
        /\ result.state = "pending" =>
              \E p \in outstanding : outstanding = {p} /\ p.state = "rejected"
        /\ result.state # "pending" => outstanding = {}

\* setup returned a promise that was rejected
C16_Witness ==
    /\ result.state = "rejected"
    /\ SetupFailures # {}
    /\ calls = <<"setup">>

----------------------------------------------------------------------------
(* C17 *)

\* the bench invocations that have settled successfully
FulfilledBenches ==
    Count("bench")
        - Cardinality({p \in outstanding : p.hook = "bench" /\ p.state = "pending"})
        - Cardinality(BenchFailures)

\* the timer reading taken by the step that invoked the hook of link q
\* (a bench is invoked LoopGap after the reading before it)
ReadBefore(q) == IF q.hook = "bench" THEN q.start - LoopGap ELSE q.start

\* a step in which next() evaluates the stopping condition: it invokes bench
\* or teardown
EvaluatesStop == calls' # calls /\ calls # <<>>

\* a step that runs the callback of a fulfilled bench
RecordsSample ==
    \E p \in outstanding : p.hook = "bench" /\ p.state = "fulfilled" /\ p \notin outstanding'

C17_Step ==
    /\ EvaluatesStop =>
          /\ elapsed' = Sum(samples')
          /\ Len(samples') = FulfilledBenches
    /\ RecordsSample =>
          \E p \in outstanding, q \in outstanding' :
              /\ p.hook = "bench"
              /\ outstanding' = {q}
              /\ samples' = Append(samples, ReadBefore(q) - p.start)
              /\ elapsed' = elapsed + (ReadBefore(q) - p.start)
    /\ (~RecordsSample /\ result.state # "none") =>
          (samples' = samples /\ elapsed' = elapsed)

\* C17: in every step that evaluates the stopping condition the cumulative
\* value equals the sum of the samples collected and their number equals the
\* number of bench invocations settled successfully; every step that runs
\* the callback of a fulfilled bench appends exactly one sample, the end
\* reading minus that invocation's start reading, and adds the same value to
\* the sum; no other step changes either.
C17_SumAndCount == [][C17_Step]_vars

C17_Witness ==
    /\ script = <<2, 3>>
    /\ samples = <<2, 3, 2>>
    /\ elapsed = 7
    /\ \E p \in outstanding : p.hook = "bench" /\ p.id = 5

----------------------------------------------------------------------------
(* C15 *)

Delivered ==
    /\ result.state = "fulfilled"
    /\ Count("teardown") = 1
    /\ Len(result.value) >= MinSamples + 1
    /\ Sum(result.value) >= Ms(TimeBudgetMs)

\* C15 (under SpecLive: every sample duration positive, fair scheduling,
\* every hook promise settling): a run in which no hook fails eventually
\* invokes teardown and delivers at least 211 samples of sum >= 300 ms.
C15_EventuallyDelivers == <>(failed # {} \/ Delivered)

C15_Witness ==
    /\ Delivered
    /\ failed = {}
    /\ script = <<2, 100>>

----------------------------------------------------------------------------
(* C13 *)

\* C13 (under SpecNew): the configuration query of Benchmark itself returns
\* exactly one configuration, with label "" and options {}; and an instance
\* has the label and the options of the configuration it was constructed
\* from.
C13_DefaultAndConstruction ==
    /\ configs.class = "Benchmark" =>
          /\ Len(configs.list) = 1
          /\ configs.list[1].label = ""
          /\ configs.list[1].options = EmptyOptions
          /\ DOMAIN configs.list[1] = {"label", "options"}
    /\ opts # NoConfiguration =>
          /\ inst.label = opts.label
          /\ inst.options = opts.options

\* an instance constructed from the second configuration of an override
C13_Witness ==
    /\ configs.class = "subclass"
    /\ Len(configs.list) = 2
    /\ opts = configs.list[2]
    /\ opts = [label |-> "large", options |-> [n |-> 1000]]
    /\ inst.options = [n |-> 1000]

----------------------------------------------------------------------------
(* C12 *)

\* run r of the two, whichever the variables hold at the moment
RunOf(r) == IF r = focus THEN Held ELSE other

\* the k-th bench of a run with durations sc
DurationIn(sc, k) == sc[((k - 1) % Len(sc)) + 1]

\* the sum and the samples of a run are made of its own bench durations
\* only, and its stopping decision was taken on them
OwnState(r) ==
    LET run == RunOf(r)
    IN  /\ \A k \in 1..Len(run.samples) : run.samples[k] = DurationIn(run.script, k)
        /\ run.elapsed = Sum(run.samples)
        /\ (\E i \in 1..Len(run.calls) : run.calls[i] = "teardown")
              => StopCond(run.elapsed, run.samples)
        /\ \A p \in run.outstanding :
              p.hook = "bench" => ~StopCond(run.elapsed, run.samples)
        /\ run.result.state = "fulfilled" => run.result.value = run.samples

\* a step of one run, or a turn of the event loop from one to the other,
\* leaves the sum and the samples of the run that does not act as they were
OthersUntouched ==
    \A r \in {1, 2} :
        (focus' # focus \/ r # focus) =>
            /\ RunOf(r)'.elapsed = RunOf(r).elapsed
            /\ RunOf(r)'.samples = RunOf(r).samples

\* C12 (under SpecTwo, two instances constructed from two configurations,
\* their runs interleaved at every point allowed by SwitchWindow): each run
\* has its own sum and samples, made of its own durations; a step of one run
\* leaves the other's unchanged; each run stops on its own sum and count.
C12_Independent ==
    /\ [](OwnState(1) /\ OwnState(2))
    /\ [][OthersUntouched]_vars

\* the first run has delivered its 211 samples of 1.5 ms while the second is
\* in the middle of its own, with 50 ms samples
C12_Witness ==
    /\ RunOf(1).result.state = "fulfilled"
    /\ RunOf(1).elapsed = 633
    /\ RunOf(1).inst.label = "small"
    /\ RunOf(2).samples = <<100, 100>>
    /\ RunOf(2).elapsed = 200
    /\ RunOf(2).result.state = "pending"
    /\ RunOf(2).inst.label = "large"

====
